---- MODULE Spec2Model ----
(***************************************************************************)
(* Model of package asset (api/asset/asset.go): Issue builds an unsigned   *)
(* issuance transaction for an asset and a list of output requests.        *)
(*                                                                         *)
(* Each caller runs Issue as a sequence of steps: IssueStart (asset lookup *)
(* and the destination check over all outputs), ResolveOutput (one turn of *)
(* the loop of addAssetIssuanceOutputs, with the PKScript call and the     *)
(* address it may create), IssueFinish (serialization, issuance input and  *)
(* the returned Tx) and IssueReturn (the caller drops the returned value). *)
(* The account store (address index counters and address records) is the   *)
(* only state shared between callers.                                      *)
(*                                                                         *)
(* Packages appdb, utxodb, txscript, wire and hdkey and the function       *)
(* CreateAddress are not part of the source at hand; they are modelled     *)
(* from their interface contracts.                                         *)
(***************************************************************************)
EXTENDS Integers, Sequences, FiniteSets, Bags

VARIABLES
    nextIndex,    \* account store: per bucket, the next address index
    addresses,    \* account store: the address records created so far
    handed,       \* bag of <<BucketID, AddrIndex>> of every receiver PKScript returned
    pc,           \* per caller: "idle", "resolve" or "done"
    req,          \* per caller: the arguments of the running call
    idx,          \* per caller: loop position in addAssetIssuanceOutputs (0-based)
    tx,           \* per caller: the wire.MsgTx under construction
    outAddrs,     \* per caller: the receivers collected so far
    ret,          \* per caller: the pair (*Tx, error) Issue returned
    provisioned,  \* per caller: the CreateAddress calls made by the running call
    before        \* per caller: the account store when the call started

vars == <<nextIndex, addresses, handed, pc, req, idx, tx, outAddrs, ret,
          provisioned, before>>

-----------------------------------------------------------------------------
(* Bounds *)

\* Longest output request list given to Issue.
MaxOuts == 2

\* Cap of each bucket's address index counter.
MaxIndex == 3

-----------------------------------------------------------------------------
(* Values *)

Callers == {"c1", "c2"}

\* A nil pointer is the empty sequence, a non-nil pointer a one-element one.
None == <<>>

Some(x) == <<x>>

\* package errors: an error is its root cause, the messages wrapped around
\* it (outermost first) and the details attached to it (oldest first).
NilErr == [root |-> "", wraps |-> <<>>, details |-> <<>>]

ErrNew(msg) == [root |-> msg, wraps |-> <<>>, details |-> <<>>]

Wrap(e, msg) == [e EXCEPT !.wraps = <<msg>> \o @]

WithDetailf(e, fmt, arg) ==
    [e EXCEPT !.details = Append(@, [fmt |-> fmt, arg |-> <<arg>>])]

ErrBadAddr == ErrNew("bad address")

ErrBadOutDest == ErrNew("invalid output destinations")

-----------------------------------------------------------------------------
(* Collaborators *)

\* appdb: the asset table.
AssetTable ==
    [a1 |-> [Hash |-> 11, GroupID |-> "ag1", RedeemScript |-> <<82, 1, 2, 82, 174>>,
             Keys |-> <<"k1", "k2">>, AGIndex |-> 0, AIndex |-> 1],
     a0 |-> [Hash |-> 12, GroupID |-> "ag0", RedeemScript |-> <<80, 80, 174>>,
             Keys |-> <<>>, AGIndex |-> 1, AIndex |-> 0]]

NoAsset == [Hash |-> 0, GroupID |-> "", RedeemScript |-> <<>>, Keys |-> <<>>,
            AGIndex |-> 0, AIndex |-> 0]

\* appdb.AssetByID: the asset record, or an error for an unknown identifier.
AssetByID(assetID) ==
    IF assetID \in DOMAIN AssetTable
    THEN [asset |-> AssetTable[assetID], err |-> NilErr]
    ELSE [asset |-> NoAsset, err |-> ErrNew("asset not found")]

\* appdb.IssuancePath: the derivation path of the asset's issuance keys.
IssuancePath(a) == <<a.AGIndex, a.AIndex>>

\* hdkey.Derive: one derived key per root key, in the order of the roots.
Derive(keys, path) ==
    [k \in 1..Len(keys) |-> [Root |-> keys[k], Path |-> path]]

\* hdkey.XKey.String: the serialized form of an extended public key.
XKeyString(root) == <<"xpub", root>>

\* The buckets of the account store and the wallet each belongs to.
WalletOf == [b1 |-> "w1"]

KnownBuckets == DOMAIN WalletOf

BucketCode == [b1 |-> 1]

\* The pay-to-script-hash script of address `index` of bucket b.
BucketPkScript(b, index) == <<169, BucketCode[b], index, 135>>

\* CreateAddress(ctx, addr, save): the outcomes a call may have.
\*   - An unknown bucket: an error, the store unchanged.
\*   - A known bucket, success: the next address index of the bucket is
\*     allocated and addr is filled in. The address record is written when
\*     save is TRUE; what a FALSE save does to the record is not fixed by
\*     the interface, so a call may or may not write it.
\*   - A known bucket, failure (index allocation failed, the call was
\*     cancelled): an error, with the index either untouched or already
\*     allocated and not given back.
CreateAddress(addr, save, store) ==
    IF addr.BucketID \notin KnownBuckets
    THEN {[err |-> ErrNew("bucket not found"), addr |-> addr, store |-> store]}
    ELSE LET b    == addr.BucketID
             i    == store.nextIndex[b]
             used == [store.nextIndex EXCEPT ![b] = i + 1]
             rec  == [BucketID |-> b, Index |-> i, IsChange |-> addr.IsChange]
             full == [BucketID |-> b, IsChange |-> addr.IsChange,
                      WalletID |-> WalletOf[b], Index |-> i,
                      PKScript |-> BucketPkScript(b, i)]
         IN  {[err   |-> NilErr, addr |-> full,
               store |-> [nextIndex |-> used,
                          addresses |-> IF written THEN store.addresses \cup {rec}
                                        ELSE store.addresses]] :
                  written \in IF save THEN {TRUE} ELSE BOOLEAN}
             \cup
             {[err   |-> ErrNew("allocate address index"), addr |-> addr,
               store |-> [nextIndex |-> IF consumed THEN used ELSE store.nextIndex,
                          addresses |-> store.addresses]] :
                  consumed \in BOOLEAN}

\* txscript.AddrPkScript: the script paying to a textual address, or an
\* error when the text is no address.
ValidAddresses == {"1ABC"}

AddrPkScript(address) ==
    IF address \in ValidAddresses
    THEN [script |-> <<118, 169, 7, 136, 172>>, err |-> NilErr]
    ELSE [script |-> <<>>, err |-> ErrNew("decode address")]

\* wire.NewMsgTx, wire.NewOutPoint / wire.NewTxIn, wire.NewTxOut.
NewMsgTx == [Version |-> 1, TxIn |-> <<>>, TxOut |-> <<>>, LockTime |-> 0]

NewTxIn(prevHash, prevIndex, sigScript) ==
    [PrevHash |-> prevHash, PrevIndex |-> prevIndex, SignatureScript |-> sigScript]

NewTxOut(assetHash, amount, pkScript) ==
    [AssetID |-> assetHash, Value |-> amount, PkScript |-> pkScript]

AddTxIn(t, in) == [t EXCEPT !.TxIn = Append(@, in)]

RECURSIVE Flatten(_)
Flatten(ss) == IF ss = <<>> THEN <<>> ELSE Head(ss) \o Flatten(Tail(ss))

\* wire.MsgTx.Serialize: version, the counted inputs, the counted outputs
\* (each script with its length) and the lock time.
SerializeTxIn(in) ==
    <<in.PrevHash, in.PrevIndex, Len(in.SignatureScript)>> \o in.SignatureScript

SerializeTxOut(out) ==
    <<out.AssetID, out.Value, Len(out.PkScript)>> \o out.PkScript

Serialize(t) ==
    <<t.Version, Len(t.TxIn)>>
        \o Flatten([k \in 1..Len(t.TxIn) |-> SerializeTxIn(t.TxIn[k])])
        \o <<Len(t.TxOut)>>
        \o Flatten([k \in 1..Len(t.TxOut) |-> SerializeTxOut(t.TxOut[k])])
        \o <<t.LockTime>>

\* A hash function on byte sequences, standing in for SHA-256.
RECURSIVE HashFold(_, _)
HashFold(h, bytes) ==
    IF bytes = <<>> THEN h
    ELSE HashFold((h * 31 + Head(bytes) + 1) % 257, Tail(bytes))

Sha256(bytes) == <<HashFold(7, bytes), Len(bytes) % 16>>

\* wire.DoubleSha256
DoubleSha256(bytes) == Sha256(Sha256(bytes))

-----------------------------------------------------------------------------
(* asset.go *)

\* The account store as one value.
Store == [nextIndex |-> nextIndex, addresses |-> addresses]

\* Mutant of newOutputReceiver: the address index is left at its zero value.
newOutputReceiverNoIndex(addr, isChange) ==
    [WalletID  |-> addr.WalletID,
     BucketID  |-> addr.BucketID,
     AddrIndex |-> 0,
     IsChange  |-> isChange]

\* newOutputReceiver
newOutputReceiver(addr, isChange) ==
    [WalletID  |-> addr.WalletID,
     BucketID  |-> addr.BucketID,
     AddrIndex |-> addr.Index,
     IsChange  |-> isChange]

\* The entry the log of CreateAddress calls gets for one call.
ProvisionEntry(o, r) ==
    [BucketID |-> o.BucketID,
     ok       |-> r.err = NilErr,
     WalletID |-> IF r.err = NilErr THEN r.addr.WalletID ELSE "",
     Index    |-> IF r.err = NilErr THEN r.addr.Index ELSE -1]

\* Output.PKScript, the bucket branch after CreateAddress returned r.
PKScriptOfAddress(o, r) ==
    IF r.err # NilErr
    THEN [script |-> <<>>, receiver |-> None,
          err    |-> Wrap(r.err, <<"output create address error bucket=", o.BucketID>>),
          store  |-> r.store, calls |-> <<ProvisionEntry(o, r)>>]
    ELSE [script |-> r.addr.PKScript,
          receiver |-> Some(newOutputReceiver(r.addr, o.isChange)),
          err    |-> NilErr,
          store  |-> r.store, calls |-> <<ProvisionEntry(o, r)>>]

\* Output.PKScript: the script, the receiver (nil for an address output) and
\* the error, with the account store it leaves and the CreateAddress calls
\* it made; one result for every outcome of the CreateAddress call.
PKScript(o, store) ==
    IF o.BucketID # ""
    THEN LET addr == [BucketID |-> o.BucketID, IsChange |-> o.isChange]
         IN  {PKScriptOfAddress(o, r) : r \in CreateAddress(addr, FALSE, store)}
    ELSE LET s == AddrPkScript(o.Address)
         IN  IF s.err # NilErr
             THEN {[script |-> <<>>, receiver |-> None,
                    err    |-> Wrap(ErrBadAddr, <<"output pkscript error addr=", o.Address>>),
                    store  |-> store, calls |-> <<>>]}
             ELSE {[script |-> s.script, receiver |-> None, err |-> NilErr,
                    store  |-> store, calls |-> <<>>]}

\* Mutant of BadOutDest: only an output with neither destination is refused.
BadOutDestNeitherOnly(outs) ==
    LET bad == {k \in 1..Len(outs) : outs[k].BucketID = "" /\ outs[k].Address = ""}
    IN  IF bad = {} THEN -1
        ELSE (CHOOSE k \in bad : \A j \in bad : k <= j) - 1

\* Mutant of BadOutDest: only an output with both destinations is refused.
BadOutDestBothOnly(outs) ==
    LET bad == {k \in 1..Len(outs) : outs[k].BucketID # "" /\ outs[k].Address # ""}
    IN  IF bad = {} THEN -1
        ELSE (CHOOSE k \in bad : \A j \in bad : k <= j) - 1

\* Mutant of BadOutDest: the loop goes on after a refused output, so that
\* the last one is reported.
BadOutDestLast(outs) ==
    LET bad == {k \in 1..Len(outs) :
                    (outs[k].BucketID = "") = (outs[k].Address = "")}
    IN  IF bad = {} THEN -1
        ELSE (CHOOSE k \in bad : \A j \in bad : k >= j) - 1

\* Issue, the destination check: the index (0-based) of the first output
\* with both or neither of BucketID and Address, or -1.
RECURSIVE BadOutDestFrom(_, _)
BadOutDestFrom(outs, i) ==
    IF i >= Len(outs) THEN -1
    ELSE IF (outs[i + 1].BucketID = "") = (outs[i + 1].Address = "") THEN i
    ELSE BadOutDestFrom(outs, i + 1)

BadOutDest(outs) == BadOutDestFrom(outs, 0)

\* Mutant of outputError: the index is one too high.
outputErrorNext(err, i) == WithDetailf(err, "output %d", i + 1)

\* addAssetIssuanceOutputs, the error of output i.
outputError(err, i) == WithDetailf(err, "output %d", i)

\* Mutant of appendOutput: an output equal to one already there is not added.
appendOutputOnce(t, asset, out, pkScript) ==
    LET o == NewTxOut(asset.Hash, out.Amount, pkScript)
    IN  IF \E k \in 1..Len(t.TxOut) : t.TxOut[k] = o
        THEN t
        ELSE [t EXCEPT !.TxOut = Append(@, o)]

\* addAssetIssuanceOutputs, the output added for one request.
appendOutput(t, asset, out, pkScript) ==
    [t EXCEPT !.TxOut = Append(@, NewTxOut(asset.Hash, out.Amount, pkScript))]

\* Mutant of appendReceiver: a nil receiver is not kept.
appendReceiverNonNil(recvs, receiver) ==
    IF receiver = None THEN recvs ELSE Append(recvs, receiver)

\* addAssetIssuanceOutputs, the receiver kept for one request.
appendReceiver(recvs, receiver) == Append(recvs, receiver)

\* Mutant of inputSigs: each signature is put in front of the earlier ones.
inputSigsPrepend(keys) ==
    [k \in 1..Len(keys) |->
        [XPub |-> XKeyString(keys[Len(keys) + 1 - k].Root),
         DerivationPath |-> keys[Len(keys) + 1 - k].Path]]

\* inputSigs
inputSigs(keys) ==
    [k \in 1..Len(keys) |->
        [XPub |-> XKeyString(keys[k].Root), DerivationPath |-> keys[k].Path]]

\* Mutant of issuanceInput: the digest is the single hash.
issuanceInputSingleHash(a, t) ==
    [AssetGroupID  |-> a.GroupID,
     RedeemScript  |-> a.RedeemScript,
     SignatureData |-> Sha256(Serialize(t)),
     Sigs          |-> [k \in 1..Len(Derive(a.Keys, IssuancePath(a))) |->
                           [XPub |-> XKeyString(Derive(a.Keys, IssuancePath(a))[k].Root),
                            DerivationPath |-> Derive(a.Keys, IssuancePath(a))[k].Path]]]

\* issuanceInput
issuanceInput(a, t) ==
    [AssetGroupID  |-> a.GroupID,
     RedeemScript  |-> a.RedeemScript,
     SignatureData |-> DoubleSha256(Serialize(t)),
     Sigs          |-> inputSigs(Derive(a.Keys, IssuancePath(a)))]

\* Issue, the Tx it returns.
appTx(asset, t, outRecvs) ==
    [Unsigned   |-> Serialize(t),
     BlockChain |-> "sandbox",
     Inputs     |-> <<issuanceInput(asset, t)>>,
     OutRecvs   |-> outRecvs]

-----------------------------------------------------------------------------
(* Inputs *)

OutAddr == [AssetID |-> "a1", Address |-> "1ABC", BucketID |-> "", Amount |-> 100,
            isChange |-> FALSE]

OutBucket == [AssetID |-> "a1", Address |-> "", BucketID |-> "b1", Amount |-> 50,
              isChange |-> FALSE]

OutChange == [AssetID |-> "a0", Address |-> "", BucketID |-> "b1", Amount |-> 25,
              isChange |-> TRUE]

OutBoth == [AssetID |-> "a1", Address |-> "1ABC", BucketID |-> "b1", Amount |-> 10,
            isChange |-> FALSE]

OutNeither == [AssetID |-> "a1", Address |-> "", BucketID |-> "", Amount |-> 10,
               isChange |-> FALSE]

OutBadAddr == [AssetID |-> "a1", Address |-> "bad!", BucketID |-> "", Amount |-> 100,
               isChange |-> FALSE]

OutNoBucket == [AssetID |-> "a1", Address |-> "", BucketID |-> "bx", Amount |-> 50,
                isChange |-> FALSE]

Outputs == {OutAddr, OutBucket, OutChange, OutBoth, OutNeither, OutBadAddr,
            OutNoBucket}

AssetIDs == {"a1", "a0", "zz"}

SeqsUpTo(S, n) == UNION {[1..k -> S] : k \in 0..n}

\* The requests of the concurrent specification.
ConcOutputs == {OutBucket, OutBadAddr}

ConcAssetIDs == {"a1"}

-----------------------------------------------------------------------------
(* State machine *)

NoReq == [assetID |-> "", outs |-> <<>>]

NoRet == [tx |-> None, err |-> NilErr]

NoStore == [nextIndex |-> [b \in KnownBuckets |-> 0], addresses |-> {}]

Init ==
    /\ nextIndex = [b \in KnownBuckets |-> 0]
    /\ addresses = {}
    /\ handed = EmptyBag
    /\ pc = [c \in Callers |-> "idle"]
    /\ req = [c \in Callers |-> NoReq]
    /\ idx = [c \in Callers |-> 0]
    /\ tx = [c \in Callers |-> NewMsgTx]
    /\ outAddrs = [c \in Callers |-> <<>>]
    /\ ret = [c \in Callers |-> NoRet]
    /\ provisioned = [c \in Callers |-> <<>>]
    /\ before = [c \in Callers |-> NoStore]

\* Issue up to the call of addAssetIssuanceOutputs: the transaction with its
\* issuance input, the asset lookup and the destination check.
IssueStart(c, assetID, outs) ==
    /\ pc[c] = "idle"
    /\ LET a   == AssetByID(assetID)
           bad == BadOutDest(outs)
       IN  /\ req' = [req EXCEPT ![c] = [assetID |-> assetID, outs |-> outs]]
           /\ tx' = [tx EXCEPT ![c] = AddTxIn(NewMsgTx, NewTxIn(0, 0, <<>>))]
           /\ before' = [before EXCEPT ![c] = Store]
           /\ IF a.err # NilErr
              THEN /\ pc' = [pc EXCEPT ![c] = "done"]
                   /\ ret' = [ret EXCEPT ![c] =
                          [tx |-> None,
                           err |-> WithDetailf(a.err, "get asset with ID %q", assetID)]]
              ELSE IF bad >= 0
              THEN /\ pc' = [pc EXCEPT ![c] = "done"]
                   /\ ret' = [ret EXCEPT ![c] =
                          [tx |-> None,
                           err |-> WithDetailf(ErrBadOutDest, "output index=%d", bad)]]
              ELSE /\ pc' = [pc EXCEPT ![c] = "resolve"]
                   /\ ret' = ret
    /\ UNCHANGED <<nextIndex, addresses, handed, idx, outAddrs, provisioned>>

\* One turn of the loop of addAssetIssuanceOutputs.
ResolveOutput(c) ==
    /\ pc[c] = "resolve"
    /\ idx[c] < Len(req[c].outs)
    /\ LET out   == req[c].outs[idx[c] + 1]
           asset == AssetByID(req[c].assetID).asset
       IN  \E r \in PKScript(out, Store) :
           /\ out.BucketID \in KnownBuckets => nextIndex[out.BucketID] < MaxIndex
           /\ nextIndex' = r.store.nextIndex
           /\ addresses' = r.store.addresses
           /\ provisioned' = [provisioned EXCEPT ![c] = @ \o
                  [k \in 1..Len(r.calls) |->
                      [out |-> idx[c], call |-> r.calls[k]]]]
           /\ handed' = IF r.receiver = None THEN handed
                        ELSE handed (+) SetToBag(
                                 {<<r.receiver[1].BucketID, r.receiver[1].AddrIndex>>})
           /\ IF r.err # NilErr
              THEN /\ pc' = [pc EXCEPT ![c] = "done"]
                   /\ ret' = [ret EXCEPT ![c] =
                          [tx |-> None,
                           err |-> Wrap(outputError(r.err, idx[c]),
                                        <<"add issuance outputs">>)]]
                   /\ UNCHANGED <<tx, outAddrs, idx>>
              ELSE /\ tx' = [tx EXCEPT ![c] = appendOutput(@, asset, out, r.script)]
                   /\ outAddrs' = [outAddrs EXCEPT ![c] = appendReceiver(@, r.receiver)]
                   /\ idx' = [idx EXCEPT ![c] = @ + 1]
                   /\ UNCHANGED <<pc, ret>>
    /\ UNCHANGED <<req, before>>

\* Issue after addAssetIssuanceOutputs returned without error.
IssueFinish(c) ==
    /\ pc[c] = "resolve"
    /\ idx[c] = Len(req[c].outs)
    /\ pc' = [pc EXCEPT ![c] = "done"]
    /\ ret' = [ret EXCEPT ![c] =
           [tx  |-> Some(appTx(AssetByID(req[c].assetID).asset, tx[c], outAddrs[c])),
            err |-> NilErr]]
    /\ UNCHANGED <<nextIndex, addresses, handed, req, idx, tx, outAddrs,
                   provisioned, before>>

\* The caller is through with what Issue returned.
IssueReturn(c) ==
    /\ pc[c] = "done"
    /\ pc' = [pc EXCEPT ![c] = "idle"]
    /\ req' = [req EXCEPT ![c] = NoReq]
    /\ idx' = [idx EXCEPT ![c] = 0]
    /\ tx' = [tx EXCEPT ![c] = NewMsgTx]
    /\ outAddrs' = [outAddrs EXCEPT ![c] = <<>>]
    /\ ret' = [ret EXCEPT ![c] = NoRet]
    /\ provisioned' = [provisioned EXCEPT ![c] = <<>>]
    /\ before' = [before EXCEPT ![c] = NoStore]
    /\ UNCHANGED <<nextIndex, addresses, handed>>

\* One caller, one call at a time, every request.
Next ==
    \/ \E assetID \in AssetIDs, outs \in SeqsUpTo(Outputs, MaxOuts) :
           IssueStart("c1", assetID, outs)
    \/ ResolveOutput("c1")
    \/ IssueFinish("c1")
    \/ IssueReturn("c1")

Spec == Init /\ [][Next]_vars

\* Two callers whose calls interleave at every step.
NextConc ==
    \E c \in Callers :
        \/ \E assetID \in ConcAssetIDs, outs \in SeqsUpTo(ConcOutputs, MaxOuts) :
               IssueStart(c, assetID, outs)
        \/ ResolveOutput(c)
        \/ IssueFinish(c)
        \/ IssueReturn(c)

SpecConc == Init /\ [][NextConc]_vars

-----------------------------------------------------------------------------
(* Properties *)

Done(c) == pc[c] = "done"

Succeeded(c) == Done(c) /\ ret[c].err = NilErr

Failed(c) == Done(c) /\ ret[c].err # NilErr

\* What a request says, read from the request alone.
Ambiguous(o) ==
    \/ o.BucketID = "" /\ o.Address = ""
    \/ o.BucketID # "" /\ o.Address # ""

HasAmbiguous(outs) == \E k \in 1..Len(outs) : Ambiguous(outs[k])

FirstAmbiguous(outs) ==
    CHOOSE k \in 1..Len(outs) :
        Ambiguous(outs[k]) /\ \A j \in 1..(k - 1) : ~Ambiguous(outs[j])

Unresolvable(o) ==
    \/ o.BucketID # "" /\ o.BucketID \notin KnownBuckets
    \/ o.BucketID = "" /\ o.Address \notin ValidAddresses

KnownAsset(c) == req[c].assetID \in DOMAIN AssetTable

\* The CreateAddress calls the running call of c made for output k (0-based).
CallsFor(c, k) == {n \in 1..Len(provisioned[c]) : provisioned[c][n].out = k}

\* The resolution of output k (0-based) of the running call of c fails or
\* has failed: the request cannot be resolved, or the CreateAddress call
\* made for it returned an error.
ResolutionFails(c, k) ==
    \/ Unresolvable(req[c].outs[k + 1])
    \/ \E n \in CallsFor(c, k) : ~provisioned[c][n].call.ok

SomeResolutionFails(c) ==
    \E k \in 0..(Len(req[c].outs) - 1) : ResolutionFails(c, k)

FirstResolutionFailure(c) ==
    CHOOSE k \in 0..(Len(req[c].outs) - 1) :
        ResolutionFails(c, k) /\ \A j \in 0..(k - 1) : ~ResolutionFails(c, j)

\* The outputs before position n (0-based) that name bucket b.
BucketOutsBefore(outs, n, b) == {k \in 1..n : outs[k].BucketID = b}

\* C1: after a successful Issue with N output requests the transaction has N
\* outputs, and output i carries the amount of request i and the hash of the
\* issued asset, whatever the requests (equal ones included).
C1_OutputsFollowRequests ==
    \A c \in Callers : Succeeded(c) =>
        LET outs == req[c].outs
            t    == tx[c]
        IN  /\ Len(t.TxOut) = Len(outs)
            /\ \A k \in 1..Len(outs) :
                   /\ t.TxOut[k].Value = outs[k].Amount
                   /\ t.TxOut[k].AssetID = AssetTable[req[c].assetID].Hash

C1_Witness ==
    \E c \in Callers :
        /\ Succeeded(c)
        /\ Len(req[c].outs) = 2
        /\ req[c].outs[1] = req[c].outs[2]
        /\ Len(tx[c].TxOut) = 2

\* C2: after a successful Issue the receivers are as many as the requests;
\* receiver i is nil exactly when request i names an address, and otherwise
\* is the wallet, bucket and index the one CreateAddress call made for
\* request i returned, with the change flag of request i.
C2_ReceiversFollowRequests ==
    \A c \in Callers : Succeeded(c) =>
        LET outs  == req[c].outs
            recvs == ret[c].tx[1].OutRecvs
        IN  /\ Len(recvs) = Len(outs)
            /\ \A k \in 1..Len(outs) :
                   /\ (recvs[k] = None) <=> (outs[k].BucketID = "")
                   /\ recvs[k] # None =>
                          /\ Cardinality(CallsFor(c, k - 1)) = 1
                          /\ \A n \in CallsFor(c, k - 1) :
                                 LET e == provisioned[c][n].call
                                 IN  /\ e.ok
                                     /\ recvs[k][1] =
                                            [WalletID  |-> e.WalletID,
                                             BucketID  |-> e.BucketID,
                                             AddrIndex |-> e.Index,
                                             IsChange  |-> outs[k].isChange]

C2_Witness ==
    \E c \in Callers :
        /\ Succeeded(c)
        /\ Len(ret[c].tx[1].OutRecvs) = 2
        /\ ret[c].tx[1].OutRecvs[1] = None
        /\ ret[c].tx[1].OutRecvs[2] # None
        /\ ret[c].tx[1].OutRecvs[2][1].IsChange
        /\ ret[c].tx[1].OutRecvs[2][1].AddrIndex > 0

\* C3: a call whose requests contain an entry with both or neither
\* destination never calls CreateAddress, for no output before or after
\* that entry, and leaves the account store as it found it.
C3_NoProvisioningWhenAmbiguous ==
    \A c \in Callers : (pc[c] # "idle" /\ HasAmbiguous(req[c].outs)) =>
        /\ provisioned[c] = <<>>
        /\ Store = before[c]

C3_Witness ==
    \E c \in Callers :
        /\ Done(c)
        /\ KnownAsset(c)
        /\ Len(req[c].outs) = 2
        /\ req[c].outs[1] = OutBucket
        /\ Ambiguous(req[c].outs[2])
        /\ provisioned[c] = <<>>

\* C4 as claimed: every call whose requests contain an entry with both or
\* neither destination fails with the destination error that carries the
\* index of the first such entry, and returns no Tx.
C4_Claimed ==
    \A c \in Callers : (Done(c) /\ HasAmbiguous(req[c].outs)) =>
        /\ ret[c].tx = None
        /\ ret[c].err.root = ErrBadOutDest.root
        /\ ret[c].err.details =
               <<[fmt |-> "output index=%d",
                  arg |-> <<FirstAmbiguous(req[c].outs) - 1>>]>>

\* C4: a call whose requests contain an entry with both or neither
\* destination returns no Tx; when the asset is found it fails with the
\* destination error carrying the index of the first such entry, and when
\* the asset is not found it fails with the lookup's error instead.
C4_AmbiguousDestError ==
    \A c \in Callers : (Done(c) /\ HasAmbiguous(req[c].outs)) =>
        /\ ret[c].tx = None
        /\ KnownAsset(c) =>
               /\ ret[c].err.root = ErrBadOutDest.root
               /\ ret[c].err.wraps = <<>>
               /\ ret[c].err.details =
                      <<[fmt |-> "output index=%d",
                         arg |-> <<FirstAmbiguous(req[c].outs) - 1>>]>>
        /\ ~KnownAsset(c) =>
               /\ ret[c].err.root = AssetByID(req[c].assetID).err.root
               /\ ret[c].err.details =
                      <<[fmt |-> "get asset with ID %q", arg |-> <<req[c].assetID>>]>>

C4_Witness ==
    \E c \in Callers :
        /\ Done(c)
        /\ KnownAsset(c)
        /\ Len(req[c].outs) = 2
        /\ Ambiguous(req[c].outs[1])
        /\ Ambiguous(req[c].outs[2])
        /\ ret[c].err.root = ErrBadOutDest.root

\* C5: when output i is the first whose resolution fails (an address that
\* is none, an unknown bucket or a CreateAddress call that fails), the call returns
\* no Tx and one error with the single detail "output i"; no output after i
\* is resolved (no CreateAddress call for it, no transaction output), and
\* output i is resolved once.
C5_FailFast ==
    \A c \in Callers :
        (Done(c) /\ KnownAsset(c) /\ ~HasAmbiguous(req[c].outs)
                 /\ SomeResolutionFails(c)) =>
            LET i == FirstResolutionFailure(c)
            IN  /\ ret[c].tx = None
                /\ ret[c].err # NilErr
                /\ ret[c].err.details = <<[fmt |-> "output %d", arg |-> <<i>>]>>
                /\ ret[c].err.wraps[1] = <<"add issuance outputs">>
                /\ idx[c] = i
                /\ Len(tx[c].TxOut) = i
                /\ Len(outAddrs[c]) = i
                /\ \A n \in 1..Len(provisioned[c]) : provisioned[c][n].out <= i
                /\ Cardinality(CallsFor(c, i)) =
                       IF req[c].outs[i + 1].BucketID # "" THEN 1 ELSE 0

C5_Witness ==
    \E c \in Callers :
        /\ Failed(c)
        /\ Len(req[c].outs) = 2
        /\ req[c].outs[1] = OutNoBucket
        /\ req[c].outs[2] = OutBucket
        /\ Len(provisioned[c]) = 1
        /\ ret[c].err.details = <<[fmt |-> "output %d", arg |-> <<0>>]>>

\* C6 as claimed: after a call that returned an error the account store is
\* what it was before the call.
C6_Claimed ==
    \A c \in Callers : Failed(c) => Store = before[c]

\* C6: after a call that returned an error nothing the call provisioned is
\* rolled back. The store is unchanged when the call failed in the asset
\* lookup or the destination check. When it failed at output i, the index
\* counter of each bucket has advanced by the number of the bucket's outputs
\* before i, or by one more when output i names the bucket (its failed
\* CreateAddress call may have consumed an index); no address record is
\* removed, and each added record has an index this call consumed.
C6_FailedCallKeepsProvisioned ==
    \A c \in Callers : Failed(c) =>
        LET outs == req[c].outs
            inResolution == KnownAsset(c) /\ ~HasAmbiguous(outs)
            i  == FirstResolutionFailure(c)
        IN  /\ ~inResolution => Store = before[c]
            /\ inResolution =>
                   /\ SomeResolutionFails(c)
                   /\ \A b \in KnownBuckets :
                          LET lo == before[c].nextIndex[b]
                                        + Cardinality(BucketOutsBefore(outs, i, b))
                          IN  /\ lo <= nextIndex[b]
                              /\ nextIndex[b] <=
                                     lo + (IF outs[i + 1].BucketID = b THEN 1 ELSE 0)
                   /\ before[c].addresses \subseteq addresses
                   /\ \A a \in addresses \ before[c].addresses :
                          /\ a.BucketID \in KnownBuckets
                          /\ before[c].nextIndex[a.BucketID] <= a.Index
                          /\ a.Index < before[c].nextIndex[a.BucketID]
                                 + Cardinality(BucketOutsBefore(outs, i, a.BucketID))

\* A failed call whose first output was provisioned and whose second
\* output's CreateAddress call failed after it had consumed an index.
C6_Witness ==
    \E c \in Callers :
        /\ Failed(c)
        /\ idx[c] = 1
        /\ req[c].outs = <<OutBucket, OutBucket>>
        /\ nextIndex["b1"] = before[c].nextIndex["b1"] + 2
        /\ addresses # before[c].addresses
        /\ ~provisioned[c][2].call.ok

\* C7: every resolution of a bucket output calls CreateAddress once, and no
\* two receivers ever returned for outputs of the same bucket, in one call,
\* in calls one after the other or in calls that interleave, carry the same
\* address index.
C7_FreshIndexPerOutput ==
    /\ \A e \in BagToSet(handed) : CopiesIn(e, handed) = 1
    /\ \A c \in Callers : pc[c] # "idle" =>
           /\ \A k \in 0..(idx[c] - 1) :
                  Cardinality(CallsFor(c, k)) =
                      IF req[c].outs[k + 1].BucketID # "" THEN 1 ELSE 0
           /\ \A k \in 1..Len(outAddrs[c]) : outAddrs[c][k] # None =>
                  CopiesIn(<<outAddrs[c][k][1].BucketID,
                             outAddrs[c][k][1].AddrIndex>>, handed) = 1

C7_Witness ==
    /\ pc["c1"] = "resolve"
    /\ pc["c2"] = "resolve"
    /\ idx["c1"] = 2
    /\ idx["c2"] = 1
    /\ req["c1"].outs = <<OutBucket, OutBucket>>
    /\ req["c2"].outs = <<OutBucket>>
    /\ outAddrs["c1"][1][1].AddrIndex < outAddrs["c2"][1][1].AddrIndex
    /\ outAddrs["c2"][1][1].AddrIndex < outAddrs["c1"][2][1].AddrIndex

\* C8: in a successful result the signing digest is the double hash of the
\* unsigned bytes of the same result, which are the serialization of the
\* finished transaction; serializing and hashing it again gives the digest.
C8_DigestOfReturnedBytes ==
    \A c \in Callers : Succeeded(c) =>
        LET r == ret[c].tx[1]
        IN  /\ r.Inputs[1].SignatureData = Sha256(Sha256(r.Unsigned))
            /\ r.Unsigned = Serialize(tx[c])
            /\ DoubleSha256(Serialize(tx[c])) = r.Inputs[1].SignatureData

C8_Witness ==
    \E c \in Callers :
        /\ Succeeded(c)
        /\ Len(tx[c].TxOut) = 2
        /\ ret[c].tx[1].Inputs[1].SignatureData = DoubleSha256(ret[c].tx[1].Unsigned)
        /\ ret[c].tx[1].Inputs[1].SignatureData # Sha256(ret[c].tx[1].Unsigned)

\* C9 as claimed: Issue succeeds only when every output request names the
\* asset being issued.
C9_Claimed ==
    \A c \in Callers : Succeeded(c) =>
        \A k \in 1..Len(req[c].outs) : req[c].outs[k].AssetID = req[c].assetID

\* C10: a successful result holds one input, whose signature placeholders
\* are one per key derived along the asset's issuance path, in the order of
\* the keys, each with the key's serialized root and its path; an asset with
\* no keys gives no placeholders and is no reason for Issue to fail.
C10_SigsFollowDerivedKeys ==
    \A c \in Callers :
        /\ Succeeded(c) =>
               LET a    == AssetTable[req[c].assetID]
                   keys == Derive(a.Keys, IssuancePath(a))
                   in   == ret[c].tx[1].Inputs
               IN  /\ Len(in) = 1
                   /\ Len(in[1].Sigs) = Len(keys)
                   /\ \A k \in 1..Len(keys) :
                          /\ in[1].Sigs[k].XPub = XKeyString(keys[k].Root)
                          /\ in[1].Sigs[k].DerivationPath = keys[k].Path
        /\ (Done(c) /\ KnownAsset(c) /\ ~HasAmbiguous(req[c].outs)
                    /\ ~SomeResolutionFails(c)) =>
               Succeeded(c)

C10_Witness ==
    \E c \in Callers :
        /\ Succeeded(c)
        /\ AssetTable[req[c].assetID].Keys = <<>>
        /\ Len(req[c].outs) > 0
        /\ Len(ret[c].tx[1].Inputs) = 1
        /\ ret[c].tx[1].Inputs[1].Sigs = <<>>

====
